---- MODULE Spec2Model ----
(***************************************************************************)
(* A model of GUI_Enterprise_TI.py: QuakeQuery.main and the operations it  *)
(* calls (perform_search, display_results, connect_to_database,            *)
(* store_to_database, export_to_excel) together with the per-record        *)
(* lookups (check_cdn_usage, identify_cdn_provider, get_ip_location).      *)
(*                                                                         *)
(* Python strings are TLA+ strings; Python's None is the string None.      *)
(* The network is an environment: what the upstream search returns is      *)
(* drawn when perform_search runs, and what DNS, the HTTP probe and the    *)
(* two geolocation providers answer for a host or an ip is drawn once and  *)
(* then fixed for the run (deterministic resolvers), so that the table     *)
(* and the spreadsheet are computed from the same answers.                 *)
(***************************************************************************)
EXTENDS Integers, Sequences, FiniteSets, TLC

VARIABLES
    args,       \* argparse namespace: [search |-> None or a string]
    pc,         \* position of main
    exc,        \* the exception that left main uncaught, or "none"
    data,       \* search_results["data"]: the raw page
    dns,        \* environment: host -> answer of resolver.resolve(host, 'A')
    http,       \* environment: host -> answer of requests.get("http://host")
    ipapi,      \* environment: ip -> answer of ip-api.com
    geopy,      \* environment: ip -> answer of geolocator.reverse
    i,          \* loop position inside display_results / export_to_excel
    table,      \* rows added to the PrettyTable
    printed,    \* print(table) has run
    warnings,   \* positions named by the "skipped" diagnostics
    conn,       \* sqlite connection opened
    dbRows,     \* rows inserted into quake_results
    excelData,  \* the list built by the comprehension of export_to_excel
    excelFile,  \* df.to_excel has run
    usage,      \* the usage line was printed
    calls,      \* every network call issued, in order
    reply,      \* what the upstream search answered (perform_search)
    answer,     \* classifier run: the DNS answer for the hostname
    response,   \* classifier run: the HTTP answer for the hostname
    verdict     \* classifier run: the cdn_provider cell computed

vars == <<args, pc, exc, data, dns, http, ipapi, geopy, i, table, printed,
          warnings, conn, dbRows, excelData, excelFile, usage, calls, reply,
          answer, response, verdict>>

cdnVars == <<answer, response, verdict>>

-----------------------------------------------------------------------------
(* Bounds and input sets *)

\* longest raw page
MaxPage == 2

None == "None"

\* cdn_provider = "未知" (display_results) and location or "未知"
UNKNOWN_LABEL == "unknown"

Hosts == {"a.com", "b.com"}
Ips == {"1.1.1.1"}
Queries == {None, "", "domain:a.com"}

\* item["service"] with and without the 'http' sub-item
ServiceHttp(h) == [k \in {"http"} |-> [host |-> h]]
ServiceOther == [k \in {"ftp"} |-> [banner |-> "220"]]

RawItems ==
    {[service |-> ServiceHttp(h), ip |-> a, port |-> 80] : h \in Hosts, a \in Ips}
    \cup {[service |-> ServiceOther, ip |-> a, port |-> 21] : a \in Ips}

RECURSIVE SeqsUpTo(_, _)
SeqsUpTo(S, n) ==
    IF n = 0 THEN {<<>>}
    ELSE LET shorter == SeqsUpTo(S, n - 1)
         IN  shorter \cup {Append(s, x) : s \in {t \in shorter : Len(t) = n - 1}, x \in S}

Pages == SeqsUpTo(RawItems, MaxPage)

\* response.headers with and without a Server header
NoHeaders == [k \in {} |-> ""]
ServerHeader(h) == [k \in {"Server"} |-> h]

\* what requests.get / requests.post can do: raise a RequestException
\* (timeout, connection refused, ...) or return a final response. A 3xx
\* status is final when the response names no Location to follow (300).
Raised == [raises |-> TRUE, status |-> 0, headers |-> NoHeaders, body |-> ""]
Answer(st, hd, b) == [raises |-> FALSE, status |-> st, headers |-> hd, body |-> b]

ProbeOutcomes ==
    {Raised} \cup
    {Answer(200, ServerHeader("cloudflare"), ""),
     Answer(200, ServerHeader("nginx"), ""),
     Answer(300, ServerHeader("cloudflare"), ""),
     Answer(404, ServerHeader("cloudflare"), "")}

ApiOutcomes ==
    {Raised} \cup
    {Answer(st, NoHeaders, b) : st \in {200, 300, 401, 500}, b \in {"malformed", "page"}}

\* resolver.resolve: raises (NXDOMAIN, NoAnswer, Timeout, ...) or returns n >= 1 answers
DnsOutcomes == {[raises |-> TRUE, n |-> 0], [raises |-> FALSE, n |-> 1],
                [raises |-> FALSE, n |-> 2]}

\* ip-api.com: the request raises, or the JSON body has a status and maybe a city
IpApiOutcomes == {[raises |-> TRUE, json |-> [k \in {} |-> ""]],
                  [raises |-> FALSE, json |-> [status |-> "fail"]],
                  [raises |-> FALSE, json |-> [status |-> "success"]],
                  [raises |-> FALSE, json |-> [status |-> "success", city |-> ""]],
                  [raises |-> FALSE, json |-> [status |-> "success", city |-> "Paris"]]}

\* geolocator.reverse: raises, finds nothing (returns None), or finds an address
GeopyOutcomes == {[raises |-> TRUE, address |-> None, found |-> FALSE],
                  [raises |-> FALSE, address |-> None, found |-> FALSE],
                  [raises |-> FALSE, address |-> "Paris, France", found |-> TRUE]}

NoEnv == [k \in {} |-> 0]

-----------------------------------------------------------------------------
(* Strings *)

UPPER == "ABCDEFGHIJKLMNOPQRSTUVWXYZ"
LOWER == "abcdefghijklmnopqrstuvwxyz"

\* upper-case letter -> lower-case letter
LowerTable ==
    [c \in {SubSeq(UPPER, k, k) : k \in 1..Len(UPPER)} |->
        LET k == CHOOSE k \in 1..Len(UPPER) : SubSeq(UPPER, k, k) = c
        IN  SubSeq(LOWER, k, k)]

\* str.lower() on one character
LowerChar(c) == IF c \in DOMAIN LowerTable THEN LowerTable[c] ELSE c

\* str.lower()
RECURSIVE Lower(_)
Lower(s) ==
    IF Len(s) = 0 THEN ""
    ELSE LowerChar(SubSeq(s, 1, 1)) \o Lower(SubSeq(s, 2, Len(s)))

\* sub in s
Contains(s, sub) ==
    \E k \in 1..(Len(s) - Len(sub) + 1) : SubSeq(s, k, k + Len(sub) - 1) = sub

\* dict.get(key, default)
DictGet(d, key, default) == IF key \in DOMAIN d THEN d[key] ELSE default

-----------------------------------------------------------------------------
(* The lookups *)

COMMON_CDN_NAMES ==
    <<"cloudflare", "akamai", "fastly", "maxcdn", "cloudfront", "azure cdn",
      "google cloud cdn", "stackpath", "limelight", "incapsula">>

\* seeded fault: only a server error counts as an HTTP error
raise_for_status_5xx_only(r) == 500 <= r.status /\ r.status < 600

\* response.raise_for_status(): HTTPError for a 4xx or 5xx status, nothing otherwise
raise_for_status(r) == 400 <= r.status /\ r.status < 600

\* check_cdn_usage: the resolver's exception is not caught here
check_cdn_usage(answers) ==
    [raises |-> answers.raises, value |-> (~answers.raises /\ answers.n >= 2)]

\* the for loop of identify_cdn_provider, from catalog entry k on
RECURSIVE first_cdn_name(_, _)
first_cdn_name(server_header, k) ==
    IF k > Len(COMMON_CDN_NAMES) THEN None
    ELSE IF Contains(server_header, Lower(COMMON_CDN_NAMES[k])) THEN COMMON_CDN_NAMES[k]
    ELSE first_cdn_name(server_header, k + 1)

\* seeded fault: the Server header is matched without .lower()
identify_cdn_provider_case_sensitive(r) ==
    IF r.raises \/ raise_for_status(r) THEN None
    ELSE first_cdn_name(DictGet(r.headers, "Server", ""), 1)

\* seeded fault: the status of the response is not looked at
identify_cdn_provider_unchecked_status(r) ==
    IF r.raises THEN None
    ELSE first_cdn_name(Lower(DictGet(r.headers, "Server", "")), 1)

identify_cdn_provider(r) ==
    IF r.raises \/ raise_for_status(r) THEN None
    ELSE first_cdn_name(Lower(DictGet(r.headers, "Server", "")), 1)

_get_ip_location_with_ip_api(r) ==
    IF r.raises THEN None
    ELSE IF r.json.status = "success"
         THEN (IF "city" \in DOMAIN r.json THEN r.json.city ELSE None)
         ELSE None

_get_ip_location_with_geopy(r) ==
    IF r.raises \/ ~r.found THEN None ELSE r.address

Call(op, arg) == [op |-> op, arg |-> arg]

\* seeded fault: no fallback to the secondary provider
get_ip_location_primary_only(ip_address, primary, secondary) ==
    [location |-> _get_ip_location_with_ip_api(primary),
     calls |-> <<Call("ip_api", ip_address)>>]

\* get_ip_location: the location and the provider calls it made, in order
get_ip_location(ip_address, primary, secondary) ==
    LET first == _get_ip_location_with_ip_api(primary)
    IN  IF first = None
        THEN [location |-> _get_ip_location_with_geopy(secondary),
              calls |-> <<Call("ip_api", ip_address), Call("geopy", ip_address)>>]
        ELSE [location |-> first, calls |-> <<Call("ip_api", ip_address)>>]

\* x or "未知"
OrUnknown(x) == IF x = None \/ x = "" THEN UNKNOWN_LABEL ELSE x

\* seeded fault: args.search is not None
TruthyNotNone(s) == s # None

\* bool(args.search)
Truthy(s) == s # None /\ s # ""

HasHttp(item) == "http" \in DOMAIN item.service

\* lines 103-106 of display_results: the cdn_provider cell and the calls made
display_cdn(hostname, answers, probe) ==
    IF check_cdn_usage(answers).value
    THEN [cdn |-> identify_cdn_provider(probe),
          calls |-> <<Call("dns", hostname), Call("probe", hostname)>>]
    ELSE [cdn |-> UNKNOWN_LABEL, calls |-> <<Call("dns", hostname)>>]

\* the tuple built for one item by the comprehension of export_to_excel
export_row(index, item, primary, secondary, probe) ==
    LET hostname == item.service["http"].host
        loc == get_ip_location(item.ip, primary, secondary)
    IN  [row |-> <<index + 1, hostname, item.ip, item.port, loc.location,
                   identify_cdn_provider(probe)>>,
         calls |-> loc.calls \o <<Call("probe", hostname)>>]

\* rows_to_insert of store_to_database
RECURSIVE rows_to_insert(_)
rows_to_insert(results) ==
    IF results = <<>> THEN <<>>
    ELSE <<<<Head(results).service["http"].host, Head(results).ip, Head(results).port>>>>
         \o rows_to_insert(Tail(results))

HostsOf(page) == {page[k].service["http"].host : k \in {j \in 1..Len(page) : HasHttp(page[j])}}
IpsOf(page) == {page[k].ip : k \in 1..Len(page)}

-----------------------------------------------------------------------------
(* main *)

Init ==
    /\ args \in {[search |-> q] : q \in Queries}
    /\ pc = "main"
    /\ exc = "none"
    /\ data = <<>>
    /\ dns = NoEnv /\ http = NoEnv /\ ipapi = NoEnv /\ geopy = NoEnv
    /\ i = 0
    /\ table = <<>> /\ printed = FALSE /\ warnings = <<>>
    /\ conn = FALSE /\ dbRows = <<>>
    /\ excelData = <<>> /\ excelFile = FALSE
    /\ usage = FALSE
    /\ calls = <<>>
    /\ reply = Raised
    /\ answer = [raises |-> TRUE, n |-> 0] /\ response = Raised /\ verdict = None

\* main, lines 193-195 and 202-203
Main ==
    /\ pc = "main"
    /\ IF Truthy(args.search)
       THEN pc' = "search" /\ usage' = usage
       ELSE pc' = "done" /\ usage' = TRUE
    /\ UNCHANGED <<args, exc, data, dns, http, ipapi, geopy, i, table, printed,
                   warnings, conn, dbRows, excelData, excelFile, calls, reply, cdnVars>>

\* perform_search: a RequestException is printed and raised again; an
\* exception of json.loads is not caught at all
PerformSearch ==
    /\ pc = "search"
    /\ calls' = Append(calls, Call("search", args.search))
    /\ \E r \in ApiOutcomes :
        /\ reply' = r
        /\ IF r.raises \/ raise_for_status(r) \/ r.body = "malformed"
           THEN /\ exc' = (IF r.raises THEN "RequestException"
                           ELSE IF raise_for_status(r) THEN "HTTPError"
                           ELSE "JSONDecodeError")
                /\ pc' = "raised"
                /\ UNCHANGED <<data, dns, http, ipapi, geopy, i>>
           ELSE /\ \E page \in Pages :
                   /\ data' = page
                   /\ dns' \in [HostsOf(page) -> DnsOutcomes]
                   /\ http' \in [HostsOf(page) -> ProbeOutcomes]
                   /\ ipapi' \in [IpsOf(page) -> IpApiOutcomes]
                   /\ geopy' \in [IpsOf(page) -> GeopyOutcomes]
                /\ pc' = "display"
                /\ i' = 1
                /\ exc' = exc
    /\ UNCHANGED <<args, table, printed, warnings, conn, dbRows, excelData,
                   excelFile, usage, cdnVars>>

\* one iteration of the for loop of display_results
DisplayRecord ==
    /\ pc = "display"
    /\ i <= Len(data)
    /\ LET item == data[i] IN
       IF HasHttp(item)
       THEN LET hostname == item.service["http"].host IN
            IF check_cdn_usage(dns[hostname]).raises
            THEN /\ calls' = Append(calls, Call("dns", hostname))
                 /\ exc' = "DNSException"
                 /\ pc' = "raised"
                 /\ UNCHANGED <<i, table, warnings>>
            ELSE LET c == display_cdn(hostname, dns[hostname], http[hostname])
                     loc == get_ip_location(item.ip, ipapi[item.ip], geopy[item.ip])
                 IN  /\ calls' = calls \o c.calls \o loc.calls
                     /\ table' = Append(table, <<i, hostname, item.ip, item.port,
                                                 OrUnknown(loc.location), c.cdn>>)
                     /\ i' = i + 1
                     /\ UNCHANGED <<exc, pc, warnings>>
       ELSE /\ warnings' = Append(warnings, i)
            /\ i' = i + 1
            /\ UNCHANGED <<exc, pc, table, calls>>
    /\ UNCHANGED <<args, data, dns, http, ipapi, geopy, printed, conn, dbRows,
                   excelData, excelFile, usage, reply, cdnVars>>

\* print(table), then back in main
DisplayPrint ==
    /\ pc = "display"
    /\ i > Len(data)
    /\ printed' = TRUE
    /\ pc' = "connect"
    /\ UNCHANGED <<args, exc, data, dns, http, ipapi, geopy, i, table, warnings,
                   conn, dbRows, excelData, excelFile, usage, calls, reply, cdnVars>>

ConnectToDatabase ==
    /\ pc = "connect"
    /\ conn' = TRUE
    /\ pc' = "store"
    /\ UNCHANGED <<args, exc, data, dns, http, ipapi, geopy, i, table, printed,
                   warnings, dbRows, excelData, excelFile, usage, calls, reply, cdnVars>>

\* store_to_database: the comprehension reads item["service"]["http"] of every item
StoreToDatabase ==
    /\ pc = "store"
    /\ IF \A k \in 1..Len(data) : HasHttp(data[k])
       THEN /\ dbRows' = dbRows \o rows_to_insert(data)
            /\ pc' = "export"
            /\ i' = 1
            /\ exc' = exc
       ELSE /\ exc' = "KeyError"
            /\ pc' = "raised"
            /\ UNCHANGED <<dbRows, i>>
    /\ UNCHANGED <<args, data, dns, http, ipapi, geopy, table, printed, warnings,
                   conn, excelData, excelFile, usage, calls, reply, cdnVars>>

\* one item of the comprehension of export_to_excel
ExportRecord ==
    /\ pc = "export"
    /\ i <= Len(data)
    /\ LET item == data[i] IN
       IF HasHttp(item)
       THEN LET e == export_row(i - 1, item, ipapi[item.ip], geopy[item.ip],
                                http[item.service["http"].host])
            IN  /\ excelData' = Append(excelData, e.row)
                /\ calls' = calls \o e.calls
                /\ i' = i + 1
                /\ UNCHANGED <<exc, pc>>
       ELSE /\ exc' = "KeyError"
            /\ pc' = "raised"
            /\ UNCHANGED <<excelData, calls, i>>
    /\ UNCHANGED <<args, data, dns, http, ipapi, geopy, table, printed, warnings,
                   conn, dbRows, excelFile, usage, reply, cdnVars>>

\* df.to_excel, and main's last print
WriteExcel ==
    /\ pc = "export"
    /\ i > Len(data)
    /\ excelFile' = TRUE
    /\ pc' = "done"
    /\ UNCHANGED <<args, exc, data, dns, http, ipapi, geopy, i, table, printed,
                   warnings, conn, dbRows, excelData, usage, calls, reply, cdnVars>>

Next ==
    \/ Main
    \/ PerformSearch
    \/ DisplayRecord
    \/ DisplayPrint
    \/ ConnectToDatabase
    \/ StoreToDatabase
    \/ ExportRecord
    \/ WriteExcel

Spec == Init /\ [][Next]_vars

-----------------------------------------------------------------------------
(* The classifier on its own: lines 103-106 of display_results for one     *)
(* hostname, over a wider set of Server headers than the runs of main use. *)

ServerTokens ==
    {"nginx", "cloudflare", "CloudFlare", "AkamaiGHost", "CLOUDFRONT",
     "Azure CDN", "azure-cdn", "Google Cloud CDN", "cloudf"}

ServerValues ==
    {""} \cup ServerTokens \cup {a \o " " \o b : a \in ServerTokens, b \in ServerTokens}

CdnResponses ==
    {Raised} \cup
    {Answer(st, hd, "") : st \in {200, 300, 404, 503},
                          hd \in {NoHeaders} \cup {ServerHeader(v) : v \in ServerValues}}

InitCdn ==
    /\ pc = "classify"
    /\ answer \in DnsOutcomes
    /\ response \in CdnResponses
    /\ verdict = None
    /\ args = [search |-> None]
    /\ exc = "none"
    /\ data = <<>>
    /\ dns = NoEnv /\ http = NoEnv /\ ipapi = NoEnv /\ geopy = NoEnv
    /\ i = 0
    /\ table = <<>> /\ printed = FALSE /\ warnings = <<>>
    /\ conn = FALSE /\ dbRows = <<>>
    /\ excelData = <<>> /\ excelFile = FALSE
    /\ usage = FALSE
    /\ calls = <<>>
    /\ reply = Raised

Classify ==
    /\ pc = "classify"
    /\ IF check_cdn_usage(answer).raises
       THEN /\ exc' = "DNSException"
            /\ pc' = "raised"
            /\ calls' = Append(calls, Call("dns", "a.com"))
            /\ verdict' = verdict
       ELSE LET c == display_cdn("a.com", answer, response)
            IN  /\ verdict' = c.cdn
                /\ calls' = calls \o c.calls
                /\ pc' = "classified"
                /\ exc' = exc
    /\ UNCHANGED <<args, data, dns, http, ipapi, geopy, i, table, printed,
                   warnings, conn, dbRows, excelData, excelFile, usage, reply,
                   answer, response>>

NextCdn == Classify

SpecCdn == InitCdn /\ [][NextCdn]_vars

-----------------------------------------------------------------------------
(* Vocabulary of the properties *)

Valid(k) == HasHttp(data[k])
HostAt(k) == data[k].service["http"].host
ValidPositions == {k \in 1..Len(data) : Valid(k)}

\* iterations of the loop of display_results that have completed
Iterations == Len(table) + Len(warnings)

\* the position in the page of the n-th valid record
NthValid(n) == CHOOSE k \in ValidPositions : Cardinality({j \in ValidPositions : j <= k}) = n

\* rows carry dense indices 1..N over the valid records, in page order
DenseOverValid(rows) ==
    /\ Len(rows) = Cardinality(ValidPositions)
    /\ \A n \in 1..Len(rows) :
        /\ rows[n][1] = n
        /\ rows[n][2] = HostAt(NthValid(n))

Resolved(h) == h \in DOMAIN dns /\ ~dns[h].raises
NoDnsFailure == \A h \in DOMAIN dns : ~dns[h].raises

\* the lookups of one record: everything but the upstream search
RecordLookups == {c \in 1..Len(calls) : calls[c].op # "search"}

NothingProduced ==
    /\ table = <<>> /\ ~printed /\ warnings = <<>>
    /\ ~conn /\ dbRows = <<>>
    /\ excelData = <<>> /\ ~excelFile
    /\ RecordLookups = {}

-----------------------------------------------------------------------------
(* C1 *)

\* C1: once the table is printed (the spreadsheet written), its rows are
\* exactly the valid records of the page, in page order, numbered 1..N.
C1_DenseIndices ==
    /\ printed => DenseOverValid(table)
    /\ excelFile => DenseOverValid(excelData)

(* C2 *)

\* C2: a DNS lookup that fails for a record does not end the run: no
\* resolver exception leaves main, the record gets its row, and a run that
\* has ended has printed the table.
C2_DnsFailureNotFatal ==
    (\E k \in ValidPositions : dns[HostAt(k)].raises) =>
        /\ exc # "DNSException"
        /\ \A k \in ValidPositions :
            k <= Iterations => \E n \in 1..Len(table) : table[n][2] = HostAt(k)
        /\ pc \in {"done", "raised"} => printed

(* C3 *)

\* C3: on a page with a record without 'http' (and no failing lookup) the
\* record is skipped with exactly one diagnostic naming its position, no
\* exception leaves main, and the completed run has printed the table,
\* stored the valid records and written the spreadsheet.
C3_InvalidRecordIsOnlyAWarning ==
    ((\E k \in 1..Len(data) : ~Valid(k)) /\ NoDnsFailure) =>
        /\ exc = "none"
        /\ \A k \in 1..Iterations :
            ~Valid(k) => Cardinality({w \in 1..Len(warnings) : warnings[w] = k}) = 1
        /\ pc = "done" =>
            /\ printed /\ conn /\ excelFile
            /\ Len(dbRows) = Cardinality(ValidPositions)

(* C4 *)

\* C4: a host with a single A-record is never probed over HTTP, and its
\* table cell is not the Unknown (None) of identify_cdn_provider.
C4_NoProbeForSingleARecord ==
    /\ \A c \in 1..Len(calls) :
        calls[c].op = "probe" => ~(Resolved(calls[c].arg) /\ dns[calls[c].arg].n < 2)
    /\ \A n \in 1..Len(table) :
        (Resolved(table[n][2]) /\ dns[table[n][2]].n < 2) => table[n][6] # None

(* C5 *)

CatalogMatches(header) ==
    {k \in 1..Len(COMMON_CDN_NAMES) : Contains(Lower(header), Lower(COMMON_CDN_NAMES[k]))}

\* C5: for a host with >= 2 A-records whose probe returns a 2xx response,
\* the cell is the first catalog entry, in catalog order, that occurs in
\* the Server header whatever the letter case, spelled as in the catalog
\* (lower case); None when no entry occurs or the header is missing.
C5_FirstCatalogMatch ==
    (pc = "classified" /\ answer.n >= 2 /\ ~response.raises
        /\ 200 <= response.status /\ response.status < 300) =>
        LET m == CatalogMatches(DictGet(response.headers, "Server", ""))
        IN  IF m = {} THEN verdict = None
            ELSE \E k \in m :
                    /\ \A j \in m : k <= j
                    /\ verdict = COMMON_CDN_NAMES[k]
                    /\ verdict = Lower(verdict)

C5_Witness ==
    /\ pc = "classified" /\ answer.n >= 2
    /\ response = Answer(200, ServerHeader("CLOUDFRONT AkamaiGHost"), "")
    /\ verdict = "akamai"

(* C6 *)

\* the probe failures the claim names / the ones the code treats as failures
ProbeFailedNon2xx(r) == r.raises \/ ~(200 <= r.status /\ r.status < 300)
ProbeFailed4xx5xx(r) == r.raises \/ (400 <= r.status /\ r.status < 600)

ProbeFailureYieldsUnknown(Failed(_)) ==
    \A k \in ValidPositions :
        (Resolved(HostAt(k)) /\ dns[HostAt(k)].n >= 2 /\ Failed(http[HostAt(k)])) =>
            /\ k <= Iterations =>
                \E n \in 1..Len(table) : table[n][1] = k /\ table[n][6] = None
            /\ ~(pc = "raised" /\ ~printed /\ Iterations + 1 = k)
            /\ (pc = "display" /\ k <= Iterations) => i > k

\* C6 (as claimed): the probe of a host with >= 2 A-records fails by an
\* exception or any non-2xx status: the record's cell is None, no exception
\* ends the loop at that record, and the loop goes on to the next record.
C6_Non2xxYieldsUnknown == ProbeFailureYieldsUnknown(ProbeFailedNon2xx)

\* C6 (amended): the same, for a probe that fails by an exception or by a
\* 4xx/5xx status.
C6_ProbeErrorYieldsUnknown == ProbeFailureYieldsUnknown(ProbeFailed4xx5xx)

C6_Witness ==
    /\ pc = "display" /\ Len(data) = 2 /\ i = 2
    /\ Valid(1) /\ dns[HostAt(1)].n >= 2 /\ http[HostAt(1)].status = 404
    /\ table[1][6] = None

(* C7 *)

PrimaryOk(ip) ==
    /\ ~ipapi[ip].raises
    /\ ipapi[ip].json.status = "success"
    /\ "city" \in DOMAIN ipapi[ip].json
SecondaryOk(ip) == ~geopy[ip].raises /\ geopy[ip].found

ExpectedLocation(ip) ==
    IF PrimaryOk(ip) THEN ipapi[ip].json.city
    ELSE IF SecondaryOk(ip) THEN geopy[ip].address
    ELSE None

\* C7: the primary provider is asked first; the secondary is asked exactly
\* when the primary failed, and right after it; the location is the
\* primary's city, else the secondary's address, else None; and every
\* lookup ends in an emitted row (it never raises).
C7_GeoFallbackChain ==
    /\ \A c \in 1..Len(calls) :
        /\ calls[c].op = "geopy" =>
            /\ c > 1
            /\ calls[c - 1] = Call("ip_api", calls[c].arg)
            /\ ~PrimaryOk(calls[c].arg)
        /\ calls[c].op = "ip_api" =>
            IF PrimaryOk(calls[c].arg)
            THEN c = Len(calls) \/ calls[c + 1].op # "geopy"
            ELSE c < Len(calls) /\ calls[c + 1] = Call("geopy", calls[c].arg)
    /\ \A n \in 1..Len(table) : table[n][5] = OrUnknown(ExpectedLocation(table[n][3]))
    /\ \A n \in 1..Len(excelData) : excelData[n][5] = ExpectedLocation(excelData[n][3])
    /\ Cardinality({c \in 1..Len(calls) : calls[c].op = "ip_api"})
         = Len(table) + Len(excelData)

C7_Witness ==
    /\ excelFile
    /\ \E n \in 1..Len(excelData) :
        /\ excelData[n][5] = None
        /\ ipapi[excelData[n][3]].raises
        /\ ~geopy[excelData[n][3]].found
    /\ \E c \in 1..Len(calls) : calls[c].op = "geopy"

(* C8 *)

Searched == \E c \in 1..Len(calls) : calls[c].op = "search"

UpstreamFailedNon2xx ==
    Searched /\ (reply.raises \/ ~(200 <= reply.status /\ reply.status < 300)
                 \/ reply.body = "malformed")
UpstreamFailed4xx5xx ==
    Searched /\ (reply.raises \/ (400 <= reply.status /\ reply.status < 600)
                 \/ reply.body = "malformed")

\* C8 (as claimed): when the search fails by a network error, any non-2xx
\* status or a malformed body, main ends with the exception and nothing
\* else was done: no table, no database, no spreadsheet, no lookup.
C8_Non2xxAbortsRun ==
    UpstreamFailedNon2xx => (pc = "raised" /\ exc # "none" /\ NothingProduced)

\* C8 (amended): the same, for a network error, a 4xx/5xx status or a
\* malformed body.
C8_SearchErrorAbortsRun ==
    UpstreamFailed4xx5xx => (pc = "raised" /\ exc # "none" /\ NothingProduced)

C8_Witness ==
    /\ pc = "raised" /\ exc = "JSONDecodeError"
    /\ reply.status = 200 /\ reply.body = "malformed"

(* C9 *)

\* C9: the spreadsheet holds, row by row, the index, hostname, ip, port,
\* location and CDN verdict of the table (None and the unknown label both
\* read as unknown).
C9_SinksAgree ==
    excelFile =>
        /\ Len(excelData) = Len(table)
        /\ \A n \in 1..Len(excelData) :
            /\ \A f \in 1..4 : excelData[n][f] = table[n][f]
            /\ OrUnknown(excelData[n][5]) = OrUnknown(table[n][5])
            /\ OrUnknown(excelData[n][6]) = OrUnknown(table[n][6])

(* C10 *)

\* C10: without a query main only prints the usage line: it ends without
\* an exception, sends no request and touches no sink.
C10_NoQueryOnlyUsage ==
    (args.search = None \/ args.search = "") =>
        /\ pc \in {"main", "done"}
        /\ pc = "done" => usage
        /\ exc = "none"
        /\ calls = <<>>
        /\ NothingProduced

C10_Witness == pc = "done" /\ usage /\ args.search = "" /\ calls = <<>>

====
